---- MODULE Spec2Model ----
(***************************************************************************)
(* Model of webdriver_click_functions/selenium/click.py: get_element,      *)
(* save_element, click_this_element and click_inside_this_element, with    *)
(* the file system the captured templates live in and the page's           *)
(* last-clicked marker.                                                    *)
(***************************************************************************)
EXTENDS Integers, Sequences, FiniteSets, TLC

VARIABLES fs, nextTmp, marker, serialized, inv, unit

vars == <<fs, nextTmp, marker, serialized, inv, unit>>

\* ------------------------------------------------------------- bounds
\* Largest retries argument tried.
MaxRetries == 2
\* Number of distinct names tempfile.NamedTemporaryFile can hand out.
MaxTmp == 2

\* The invocations that may be in flight.
Inv == {1, 2}

\* ------------------------------------------------------------- values
None == [type |-> "None", id |-> 0]
SelectorTuple(e) == [type |-> "tuple", id |-> e]
SelectorElement(e) == [type |-> "WebElement", id |-> e]
SelectorOther == [type |-> "other", id |-> 0]

Return(v) == [kind |-> "return", value |-> v, exc |-> "none"]
Raise(e) == [kind |-> "raise", value |-> None, exc |-> e]

\* os.path.join(os.getcwd(), f'{name}.png')
NamedPath(name) == [dir |-> "cwd", stem |-> name, n |-> 0, ext |-> ".png"]
\* the name tempfile.NamedTemporaryFile(suffix=".png", dir='.') makes up
TempPath(k) == [dir |-> ".", stem |-> "tmp", n |-> k, ext |-> ".png"]
NoPath == [dir |-> "", stem |-> "", n |-> 0, ext |-> ""]

Names == {"element_1", "element_2", "test-button-1"}
Paths == {NamedPath(s) : s \in Names} \cup {TempPath(k) : k \in 1..MaxTmp}

\* 'name' in file_path
Contains(path, name) == name # "" /\ path.stem = name

Absent == [exists |-> FALSE, size |-> 0, owner |-> 0, elem |-> 0]
Png(owner, e) == [exists |-> TRUE, size |-> 1, owner |-> owner, elem |-> e]
EmptyFile(owner) == [exists |-> TRUE, size |-> 0, owner |-> owner, elem |-> 0]

\* ------------------------------------------------------------- get_element
\* What the driver can answer to the one external call get_element makes.
DriverExceptions == {"TimeoutException", "NoSuchElementException",
                     "ElementNotInteractableException",
                     "StaleElementReferenceException", "WebDriverException"}

\* WebDriverWait(...).until(EC.element_to_be_clickable(selector)) for a tuple,
\* selector.is_displayed() for a WebElement; nothing is asked otherwise.
ExtOutcomes(selector) ==
    IF selector.type = "tuple" THEN {"ok"} \cup DriverExceptions
    ELSE IF selector.type = "WebElement" THEN {"ok", "hidden"} \cup DriverExceptions
    ELSE {"ok"}

get_element_try(selector, ext) ==
    IF selector.type = "tuple"
    THEN IF ext = "ok" THEN Return(SelectorElement(selector.id)) ELSE Raise(ext)
    ELSE IF selector.type = "WebElement"
    THEN IF ext = "hidden" THEN Raise("ElementNotInteractableException")
         ELSE IF ext = "ok" THEN Return(selector)
         ELSE Raise(ext)
    ELSE Raise("ValueError")

\* Faulty variant: the StaleElementReferenceException handler is missing, so the
\* exception falls to the last handler and is re-raised as it is.
get_element_except_no_stale(exc) ==
    IF exc = "TimeoutException" THEN "ElementNotFoundError"
    ELSE IF exc = "NoSuchElementException" THEN "ElementNotFoundError"
    ELSE exc

get_element_except(exc) ==
    IF exc = "TimeoutException" THEN "ElementNotFoundError"
    ELSE IF exc = "NoSuchElementException" THEN "ElementNotFoundError"
    ELSE IF exc = "ElementNotInteractableException" THEN "ElementNotInteractableException"
    ELSE IF exc = "StaleElementReferenceException" THEN "ElementNotFoundError"
    ELSE exc

get_element(selector, ext) ==
    LET r == get_element_try(selector, ext)
    IN IF r.kind = "raise" THEN Raise(get_element_except(r.exc)) ELSE r

\* ------------------------------------------------------------- save_element
\* element.screenshot(path): writes the PNG and returns True, returns False on
\* an IOError (nothing written), or raises a driver error.
ShotOutcomes == {"ok", "ioerror", "raise"}

screenshot(files, path, owner, e, out) ==
    IF out = "ok" THEN [files EXCEPT ![path] = Png(owner, e)] ELSE files

Saved(files, tmp, path) == [files |-> files, tmp |-> tmp, kind |-> "return",
                            path |-> path, exc |-> "none"]
SaveRaised(files, tmp, e) == [files |-> files, tmp |-> tmp, kind |-> "raise",
                              path |-> NoPath, exc |-> e]

\* The with-block of save_element: a fresh, empty temporary file is created
\* (delete=False), the capture is written into it and its size is checked.
save_element_temp(files, tmp, owner, e, shot2) ==
    LET temp_file_path == TempPath(tmp + 1)
        created == [files EXCEPT ![temp_file_path] = EmptyFile(owner)]
        shot == screenshot(created, temp_file_path, owner, e, shot2)
    IN IF shot2 = "raise" THEN SaveRaised(created, tmp + 1, "WebDriverException")
       ELSE IF ~shot[temp_file_path].exists \/ shot[temp_file_path].size = 0
       THEN SaveRaised(shot, tmp + 1, "Exception")
       ELSE Saved(shot, tmp + 1, temp_file_path)

\* save_element(element, name); name = "" stands for name=None.
save_element(files, tmp, owner, e, name, shot1, shot2) ==
    IF name # ""
    THEN LET filepath == NamedPath(name)
             saved == (shot1 = "ok")
         IN IF shot1 = "raise" THEN SaveRaised(files, tmp, "WebDriverException")
            ELSE IF saved THEN Saved(screenshot(files, filepath, owner, e, shot1), tmp, filepath)
            ELSE save_element_temp(files, tmp, owner, e, shot2)
    ELSE save_element_temp(files, tmp, owner, e, shot2)

\* Whether a call of save_element reaches NamedTemporaryFile.
UsesTemp(name, shot1) == name = "" \/ shot1 = "ioerror"

\* os.remove(path): the file must exist, and the host may still refuse.
RemoveOutcomes == {"ok", "PermissionError"}
CanRemove(files, path) == files[path].exists
os_remove(files, path) == [files EXCEPT ![path] = Absent]

\* ------------------------------------------------------------- invocations
SelectorTypes == {"tuple", "WebElement", "other"}
MakeSelector(type, e) ==
    IF type = "tuple" THEN SelectorTuple(e)
    ELSE IF type = "WebElement" THEN SelectorElement(e)
    ELSE SelectorOther

\* perform_test: None, a caller's predicate (constant or raising), or Clicked.default.
Predicates == {"None", "always_true", "always_false", "default", "raises"}

\* What window.lastClickedElement holds when the last click landed on no element
\* of interest.
Elsewhere == None.id
\* Invocation i targets element i; click_inside looks for it inside element Outer(i).
Outer(i) == i + 2

Idle == [pc |-> "idle", op |-> "none", selector |-> None, selector_inner |-> None,
         retries |-> 0, perform_test |-> "None",
         element |-> None, inner_element |-> None,
         file_path |-> NoPath, inner_file_path |-> NoPath,
         outer_location |-> "unset", region |-> "unset", template |-> Absent,
         attempts |-> 0, matched |-> FALSE, success |-> FALSE,
         observed |-> 0, verdict |-> "none",
         result |-> FALSE, raised |-> "none", trace |-> <<>>]

Running(i) == inv[i].pc \notin {"idle", "done"}

\* The element whose image click_image is given.
Target(r) == IF r.op = "click_inside" THEN r.inner_element ELSE r.element

\* Faulty variant: the handler logs and re-raises instead of returning False.
ExceptReraises(r, step, exc) ==
    [r EXCEPT !.pc = "raised", !.raised = exc, !.trace = Append(@, step)]

\* except Exception as e: ... return False
Except(r, step, exc) ==
    [r EXCEPT !.pc = "done", !.result = FALSE, !.raised = exc,
              !.trace = Append(@, step)]

Goto(r, step, pc) == [r EXCEPT !.pc = pc, !.trace = Append(@, step)]

\* A caller invokes click_this_element or click_inside_this_element with
\* arguments drawn from the given sets. A serializing caller waits until no other
\* invocation is in flight.
Invoke(i, ops, types, preds) ==
    /\ inv[i].pc = "idle"
    /\ serialized => \A j \in Inv \ {i} : ~Running(j)
    /\ \E op \in ops, st \in types, si \in types, n \in 0..MaxRetries, p \in preds :
          /\ op = "click" => si = st
          /\ inv' = [inv EXCEPT ![i] =
                 [Idle EXCEPT !.pc = "get_element", !.op = op,
                      !.selector = MakeSelector(st, IF op = "click" THEN i ELSE Outer(i)),
                      !.selector_inner = IF op = "click" THEN None ELSE MakeSelector(si, i),
                      !.retries = n, !.perform_test = p]]
    /\ UNCHANGED <<fs, nextTmp, marker, serialized, unit>>

Begin(i) == Invoke(i, {"click", "click_inside"}, SelectorTypes, Predicates)

\* Two callers of click_this_element on resolvable selectors.
BeginClick(i) == Invoke(i, {"click"}, {"tuple"}, {"None", "default"})

\* element = get_element(driver, selector)
GetElement(i) ==
    /\ inv[i].pc = "get_element"
    /\ \E ext \in ExtOutcomes(inv[i].selector) :
          LET r == get_element(inv[i].selector, ext)
          IN inv' = [inv EXCEPT ![i] =
                 IF r.kind = "raise" THEN Except(@, "get_element", r.exc)
                 ELSE Goto([@ EXCEPT !.element = r.value], "get_element",
                           IF @.op = "click" THEN "save_element" ELSE "get_inner")]
    /\ UNCHANGED <<fs, nextTmp, marker, serialized, unit>>

\* inner_element = get_element(driver, selector_inner)
GetInner(i) ==
    /\ inv[i].pc = "get_inner"
    /\ \E ext \in ExtOutcomes(inv[i].selector_inner) :
          LET r == get_element(inv[i].selector_inner, ext)
          IN inv' = [inv EXCEPT ![i] =
                 IF r.kind = "raise" THEN Except(@, "get_element", r.exc)
                 ELSE Goto([@ EXCEPT !.inner_element = r.value], "get_element",
                           "find_element")]
    /\ UNCHANGED <<fs, nextTmp, marker, serialized, unit>>

\* if outer_element.find_element(*selector_inner) is None: return False
\* Unpacking a WebElement is a TypeError; the driver finds the element, raises
\* NoSuchElementException, or (a stand-in driver) answers None.
FindInner(i) ==
    /\ inv[i].pc = "find_element"
    /\ \E found \in {"element", "None", "NoSuchElementException"} :
          inv' = [inv EXCEPT ![i] =
              IF @.selector_inner.type # "tuple" THEN Except(@, "find_element", "TypeError")
              ELSE IF found = "NoSuchElementException" THEN Except(@, "find_element", found)
              ELSE IF found = "None"
              THEN [@ EXCEPT !.pc = "done", !.result = FALSE,
                             !.trace = Append(@, "find_element")]
              ELSE Goto(@, "find_element", "save_element")]
    /\ UNCHANGED <<fs, nextTmp, marker, serialized, unit>>

\* file_path = save_element(element, 'element_1')
SaveElement(i) ==
    /\ inv[i].pc = "save_element"
    /\ \E shot1 \in ShotOutcomes, shot2 \in ShotOutcomes :
          /\ UsesTemp("element_1", shot1) => nextTmp < MaxTmp
          /\ ~UsesTemp("element_1", shot1) => shot2 = "ok"
          /\ LET s == save_element(fs, nextTmp, i, inv[i].element.id, "element_1",
                                   shot1, shot2)
             IN /\ fs' = s.files
                /\ nextTmp' = s.tmp
                /\ inv' = [inv EXCEPT ![i] =
                       IF s.kind = "raise" THEN Except(@, "save_element", s.exc)
                       ELSE Goto([@ EXCEPT !.file_path = s.path], "save_element",
                                 IF @.op = "click" THEN "click_image" ELSE "locate_image")]
    /\ UNCHANGED <<marker, serialized, unit>>

\* outer_element_location = locate_image(outer_element_file_path)
\* The locator reads the template and answers a box, nothing, or raises.
LocateOuter(i) ==
    /\ inv[i].pc = "locate_image"
    /\ \E found \in {"box", "None", "raise"} :
          inv' = [inv EXCEPT ![i] =
              IF ~fs[@.file_path].exists THEN Except(@, "locate_image", "FileNotFoundError")
              ELSE IF found = "raise" THEN Except(@, "locate_image", "ImageNotFoundException")
              ELSE Goto([@ EXCEPT !.outer_location = found], "locate_image", "save_inner")]
    /\ UNCHANGED <<fs, nextTmp, marker, serialized, unit>>

\* inner_element_file_path = save_element(inner_element, 'element_2')
SaveInner(i) ==
    /\ inv[i].pc = "save_inner"
    /\ \E shot1 \in ShotOutcomes, shot2 \in ShotOutcomes :
          /\ UsesTemp("element_2", shot1) => nextTmp < MaxTmp
          /\ ~UsesTemp("element_2", shot1) => shot2 = "ok"
          /\ LET s == save_element(fs, nextTmp, i, inv[i].inner_element.id, "element_2",
                                   shot1, shot2)
             IN /\ fs' = s.files
                /\ nextTmp' = s.tmp
                /\ inv' = [inv EXCEPT ![i] =
                       IF s.kind = "raise" THEN Except(@, "save_element", s.exc)
                       ELSE Goto([@ EXCEPT !.inner_file_path = s.path], "save_element",
                                 "click_image")]
    /\ UNCHANGED <<marker, serialized, unit>>

\* Faulty variant: click_image is given the fixed name instead of the path save_element
\* returned.
ImagePathFixed(r) ==
    IF r.op = "click_inside" THEN NamedPath("element_2") ELSE NamedPath("element_1")

\* The image_path and region arguments of the click_image call.
ImagePath(r) == IF r.op = "click_inside" THEN r.inner_file_path ELSE r.file_path
RegionArg(r) == IF r.op = "click_inside" THEN r.outer_location ELSE "None"

\* success = click_image(image_path=..., region=..., retries=retries, ...):
\* the call loads the template.
ClickImageCall(i) ==
    /\ inv[i].pc = "click_image"
    /\ inv' = [inv EXCEPT ![i] =
           IF ~fs[ImagePath(@)].exists THEN Except(@, "click_image", "FileNotFoundError")
           ELSE Goto([@ EXCEPT !.template = fs[ImagePath(inv[i])],
                               !.region = RegionArg(inv[i])],
                     "click_image", "locating")]
    /\ UNCHANGED <<fs, nextTmp, marker, serialized, unit>>

\* Whether click_image has another locate attempt left after `made` attempts.
AttemptsRemain(made, retries) == made < retries + 1

\* One locate attempt of click_image: a match at or above the confidence, no match,
\* or a host error. Without a match it retries while attempts remain, then
\* returns False.
LocateAttempt(i) ==
    /\ inv[i].pc = "locating"
    /\ AttemptsRemain(inv[i].attempts, inv[i].retries)
    /\ \E found \in {"match", "no_match", "raise"} :
          inv' = [inv EXCEPT ![i] =
              LET r == [@ EXCEPT !.attempts = @ + 1]
              IN IF found = "raise" THEN Except(r, "locate", "OSError")
                 ELSE IF found = "match" THEN [r EXCEPT !.pc = "moving", !.matched = TRUE]
                 ELSE IF AttemptsRemain(r.attempts, r.retries) THEN r
                 ELSE Goto([r EXCEPT !.success = FALSE], "click_image_returned", "os_remove")]
    /\ UNCHANGED <<fs, nextTmp, marker, serialized, unit>>

\* click_image moves the pointer to the match and clicks; the page records the
\* element the click landed on. click_image returns True.
MoveAndClick(i) ==
    /\ inv[i].pc = "moving"
    /\ \E landed \in {Target(inv[i]).id, Elsewhere} :
          /\ marker' = landed
          /\ inv' = [inv EXCEPT ![i] =
                 Goto([@ EXCEPT !.success = TRUE], "click_image_returned", "os_remove")]
    /\ UNCHANGED <<fs, nextTmp, serialized, unit>>

\* Faulty variant: the os.remove call is forgotten.
RemoveArtifactSkipped(i) ==
    /\ inv[i].pc = "os_remove"
    /\ inv' = [inv EXCEPT ![i] =
           Goto(@, "os_remove", IF @.op = "click" THEN "perform_test" ELSE "os_remove_inner")]
    /\ UNCHANGED <<fs, nextTmp, marker, serialized, unit>>

\* os.remove(file_path)  /  os.remove(outer_element_file_path)
RemoveArtifact(i) ==
    /\ inv[i].pc = "os_remove"
    /\ \E out \in RemoveOutcomes :
          IF ~CanRemove(fs, inv[i].file_path)
          THEN /\ fs' = fs
               /\ inv' = [inv EXCEPT ![i] = Except(@, "os_remove", "FileNotFoundError")]
          ELSE IF out # "ok"
          THEN /\ fs' = fs
               /\ inv' = [inv EXCEPT ![i] = Except(@, "os_remove", out)]
          ELSE /\ fs' = os_remove(fs, inv[i].file_path)
               /\ inv' = [inv EXCEPT ![i] =
                      Goto(@, "os_remove",
                           IF @.op = "click" THEN "perform_test" ELSE "os_remove_inner")]
    /\ UNCHANGED <<nextTmp, marker, serialized, unit>>

\* os.remove(inner_element_file_path)
RemoveInner(i) ==
    /\ inv[i].pc = "os_remove_inner"
    /\ \E out \in RemoveOutcomes :
          IF ~CanRemove(fs, inv[i].inner_file_path)
          THEN /\ fs' = fs
               /\ inv' = [inv EXCEPT ![i] = Except(@, "os_remove", "FileNotFoundError")]
          ELSE IF out # "ok"
          THEN /\ fs' = fs
               /\ inv' = [inv EXCEPT ![i] = Except(@, "os_remove", out)]
          ELSE /\ fs' = os_remove(fs, inv[i].inner_file_path)
               /\ inv' = [inv EXCEPT ![i] = Goto(@, "os_remove", "perform_test")]
    /\ UNCHANGED <<nextTmp, marker, serialized, unit>>

\* Clicked.default(driver, element): the page's last-clicked marker against the
\* element's identity.
ClickedDefault(m, element) == m = element.id

\* What perform_test(driver, element, **test_kwargs) answers.
perform_test(p, m, element) ==
    IF p = "always_true" THEN "True"
    ELSE IF p = "always_false" THEN "False"
    ELSE IF p = "default" THEN (IF ClickedDefault(m, element) THEN "True" ELSE "False")
    ELSE "raise"

\* Faulty variant: return success and perform_test(driver, element, **test_kwargs)
ConfirmRequiresSuccess(i) ==
    /\ inv[i].pc = "perform_test"
    /\ inv' = [inv EXCEPT ![i] =
           IF @.perform_test = "None"
           THEN [@ EXCEPT !.pc = "done", !.result = inv[i].success]
           ELSE LET v == perform_test(@.perform_test, marker, Target(@))
                    r == [@ EXCEPT !.observed = marker, !.verdict = v]
                IN IF v = "raise" THEN Except(r, "perform_test", "Exception")
                   ELSE [r EXCEPT !.pc = "done", !.result = (inv[i].success /\ v = "True"),
                                  !.trace = Append(@, "perform_test")]]
    /\ UNCHANGED <<fs, nextTmp, marker, serialized, unit>>

\* Faulty variant: a False confirmation starts another capture -> click -> confirm attempt
\* while fewer than retries + 1 confirmations have been made.
ConfirmRetrying(i) ==
    /\ inv[i].pc = "perform_test"
    /\ inv' = [inv EXCEPT ![i] =
           IF @.perform_test = "None"
           THEN [@ EXCEPT !.pc = "done", !.result = inv[i].success]
           ELSE LET v == perform_test(@.perform_test, marker, Target(@))
                    r == [@ EXCEPT !.observed = marker, !.verdict = v]
                    made == Cardinality({k \in 1..Len(r.trace) :
                                            r.trace[k] = "perform_test"}) + 1
                IN IF v = "raise" THEN Except(r, "perform_test", "Exception")
                   ELSE IF v = "False" /\ made < r.retries + 1
                   THEN [r EXCEPT !.pc = "save_element", !.attempts = 0,
                                  !.trace = Append(@, "perform_test")]
                   ELSE [r EXCEPT !.pc = "done", !.result = (v = "True"),
                                  !.trace = Append(@, "perform_test")]]
    /\ UNCHANGED <<fs, nextTmp, marker, serialized, unit>>

\* if perform_test is None: return success
\* else: return perform_test(driver, element, **test_kwargs)
Confirm(i) ==
    /\ inv[i].pc = "perform_test"
    /\ inv' = [inv EXCEPT ![i] =
           IF @.perform_test = "None"
           THEN [@ EXCEPT !.pc = "done", !.result = inv[i].success]
           ELSE LET v == perform_test(@.perform_test, marker, Target(@))
                    r == [@ EXCEPT !.observed = marker, !.verdict = v]
                IN IF v = "raise" THEN Except(r, "perform_test", "Exception")
                   ELSE [r EXCEPT !.pc = "done", !.result = (v = "True"),
                                  !.trace = Append(@, "perform_test")]]
    /\ UNCHANGED <<fs, nextTmp, marker, serialized, unit>>

\* ------------------------------------------------------------- direct calls
NoCall == [fn |-> "none", selector |-> None, ext |-> "none", name |-> "",
           shot1 |-> "none", shot2 |-> "none",
           kind |-> "none", exc |-> "none", element |-> None, path |-> NoPath]

\* The caller of a direct call (the test module).
Tester == 0
TestElements == {1, 2}

\* button = get_element(driver, selector)
CallGetElement ==
    /\ \E type \in SelectorTypes, e \in TestElements :
          \E ext \in ExtOutcomes(MakeSelector(type, e)) :
             LET r == get_element(MakeSelector(type, e), ext)
             IN unit' = [NoCall EXCEPT !.fn = "get_element",
                            !.selector = MakeSelector(type, e), !.ext = ext,
                            !.kind = r.kind, !.exc = r.exc, !.element = r.value]
    /\ UNCHANGED <<fs, nextTmp, marker, serialized, inv>>

\* file_path = save_element(element, name=...)
CallSaveElement ==
    /\ \E name \in {"", "test-button-1", "element_1"}, e \in TestElements,
          shot1 \in ShotOutcomes, shot2 \in ShotOutcomes :
          /\ UsesTemp(name, shot1) => nextTmp < MaxTmp
          /\ LET s == save_element(fs, nextTmp, Tester, e, name, shot1, shot2)
             IN /\ fs' = s.files
                /\ nextTmp' = s.tmp
                /\ unit' = [NoCall EXCEPT !.fn = "save_element",
                               !.selector = SelectorElement(e), !.name = name,
                               !.shot1 = shot1, !.shot2 = shot2,
                               !.kind = s.kind, !.exc = s.exc, !.path = s.path]
    /\ UNCHANGED <<marker, serialized, inv>>

\* ------------------------------------------------------------- specifications
Init ==
    /\ fs = [p \in Paths |-> Absent]
    /\ nextTmp = 0
    /\ marker = Elsewhere
    /\ serialized = TRUE
    /\ inv = [i \in Inv |-> Idle]
    /\ unit = NoCall

\* One invocation of either operation, with every argument shape.
Solo == {1}

Next ==
    \E i \in Solo :
        \/ Begin(i)
        \/ GetElement(i)
        \/ GetInner(i)
        \/ FindInner(i)
        \/ SaveElement(i)
        \/ LocateOuter(i)
        \/ SaveInner(i)
        \/ ClickImageCall(i)
        \/ LocateAttempt(i)
        \/ MoveAndClick(i)
        \/ RemoveArtifact(i)
        \/ RemoveInner(i)
        \/ Confirm(i)

Spec == Init /\ [][Next]_vars

\* Two invocations of click_this_element, serialized by the caller or not.
InitRace ==
    /\ fs = [p \in Paths |-> Absent]
    /\ nextTmp = 0
    /\ marker = Elsewhere
    /\ serialized \in BOOLEAN
    /\ inv = [i \in Inv |-> Idle]
    /\ unit = NoCall

NextRace ==
    \E i \in Inv :
        \/ BeginClick(i)
        \/ GetElement(i)
        \/ SaveElement(i)
        \/ ClickImageCall(i)
        \/ LocateAttempt(i)
        \/ MoveAndClick(i)
        \/ RemoveArtifact(i)
        \/ Confirm(i)

SpecRace == InitRace /\ [][NextRace]_vars

\* get_element and save_element called directly, as the tests do.
NextUnit == CallGetElement \/ CallSaveElement

SpecUnit == Init /\ [][NextUnit]_vars

\* ------------------------------------------------------------- properties
Done(i) == inv[i].pc = "done"
Raised(i) == inv[i].raised # "none"
Steps(i) == {inv[i].trace[k] : k \in 1..Len(inv[i].trace)}
Count(i, step) == Cardinality({k \in 1..Len(inv[i].trace) : inv[i].trace[k] = step})
LastStep(i) == IF inv[i].trace = <<>> THEN "none" ELSE inv[i].trace[Len(inv[i].trace)]
ClickImageReturned(i) == "click_image_returned" \in Steps(i)
\* The predicate was called (and answered or raised).
Consulted(i) == inv[i].verdict # "none"
\* Files on disk that invocation i wrote.
Artifacts(i) == {p \in Paths : fs[p].exists /\ fs[p].owner = i}

PcValues == {"idle", "get_element", "get_inner", "find_element", "save_element",
             "locate_image", "save_inner", "click_image", "locating", "moving",
             "os_remove", "os_remove_inner", "perform_test", "done"}

\* C1: click_this_element and click_inside_this_element never let an exception
\* out: whatever step raises (resolution, capture, locate, click_image, removal,
\* the predicate), the invocation ends by returning, and what it returns is the
\* boolean False.
C1_NeverRaises ==
    \A i \in Inv :
        /\ inv[i].pc \in PcValues
        /\ inv[i].result \in BOOLEAN
        /\ Raised(i) => Done(i) /\ inv[i].result = FALSE

\* C1 witness: the confirmation predicate raised after the click and the removal,
\* and the invocation returned False.
C1_Witness ==
    \E i \in Inv :
        /\ Done(i) /\ inv[i].raised = "Exception" /\ LastStep(i) = "perform_test"
        /\ inv[i].success /\ inv[i].result = FALSE

\* C2: once an invocation has returned, no template file it wrote is left on
\* disk, whichever way it ended.
C2_ArtifactHygiene ==
    \A i \in Inv : Done(i) => Artifacts(i) = {}

\* C3: a supplied predicate decides the result of click_this_element: whenever it
\* is consulted its answer is the result. With the always-false predicate the
\* result is False even after a successful click; the always-true predicate, once
\* consulted, gives True even if the marker check would fail; with the default
\* predicate a True result means the last-clicked marker is the target.
C3_ConfirmationOverride ==
    \A i \in Inv :
        (Done(i) /\ inv[i].op = "click") =>
            /\ inv[i].verdict \in {"True", "False"} => inv[i].result = (inv[i].verdict = "True")
            /\ inv[i].perform_test = "always_false" => inv[i].result = FALSE
            /\ (inv[i].perform_test = "always_true" /\ Consulted(i)) => inv[i].result = TRUE
            /\ (inv[i].perform_test = "default" /\ inv[i].result = TRUE)
                   => /\ inv[i].observed = inv[i].element.id
                      /\ marker = inv[i].element.id

\* C3 witness: the click landed elsewhere, so the marker check would fail, and the
\* always-true predicate made click_this_element return True.
C3_Witness ==
    \E i \in Inv :
        /\ Done(i) /\ inv[i].op = "click" /\ inv[i].perform_test = "always_true"
        /\ inv[i].success /\ marker # inv[i].element.id
        /\ inv[i].result = TRUE

\* C4: when the template never matches, click makes exactly retries + 1 locate
\* attempts and returns False, whatever the confirmation predicate.
C4_RetryExhaustion ==
    \A i \in Inv :
        (Done(i) /\ inv[i].op = "click" /\ ClickImageReturned(i) /\ ~inv[i].matched)
            => /\ inv[i].attempts = inv[i].retries + 1
               /\ inv[i].result = FALSE

C6_InnerSearchConstrained ==
    \A i \in Inv :
        (inv[i].op = "click_inside" /\ "click_image" \in Steps(i))
            => inv[i].region = "box"

\* What each kind of failure of get_element's external call must come out as.
ExpectedError(selector, ext) ==
    IF selector.type = "other" THEN "ValueError"
    ELSE IF ext \in {"TimeoutException", "NoSuchElementException",
                     "StaleElementReferenceException"} THEN "ElementNotFoundError"
    ELSE IF ext \in {"hidden", "ElementNotInteractableException"}
    THEN "ElementNotInteractableException"
    ELSE ext

\* C7: get_element returns a resolved element that passed the displayed/clickable
\* check, or raises the error kind its cause calls for: timeout, no-such-element
\* and stale reference give ElementNotFoundError, a hidden WebElement gives the
\* not-interactable error, a selector of another type gives ValueError, anything
\* else is re-raised unchanged. It never returns None.
C7_GetElementErrors ==
    unit.fn = "get_element" =>
        /\ unit.kind \in {"return", "raise"}
        /\ unit.kind = "return" =>
               /\ unit.element # None
               /\ unit.element = SelectorElement(unit.selector.id)
               /\ unit.selector.type \in {"tuple", "WebElement"}
               /\ unit.ext = "ok"
        /\ unit.kind = "raise" =>
               /\ unit.element = None
               /\ unit.exc = ExpectedError(unit.selector, unit.ext)
        /\ (unit.selector.type = "other" \/ unit.ext # "ok") => unit.kind = "raise"

\* C7 witness: a stale reference reported by is_displayed() of a WebElement came
\* out as ElementNotFoundError.
C7_Witness ==
    /\ unit.fn = "get_element" /\ unit.selector.type = "WebElement"
    /\ unit.ext = "StaleElementReferenceException"
    /\ unit.kind = "raise" /\ unit.exc = "ElementNotFoundError"

\* C8: save_element returns, or raises; a returned path is an existing, non-empty
\* file holding the capture; with a name it is <cwd>/<name>.png, which contains the
\* name, and without one it is a temporary .png file.
C8_SaveElementContract ==
    (unit.fn = "save_element" /\ unit.kind = "return") =>
        /\ fs[unit.path].exists
        /\ fs[unit.path].size > 0
        /\ fs[unit.path].elem = unit.selector.id
        /\ unit.path.ext = ".png"
        /\ unit.name # "" => unit.path = NamedPath(unit.name) /\ Contains(unit.path, unit.name)
        /\ unit.name = "" => unit.path.dir = "." /\ unit.path.stem = "tmp"

StepRank(step) ==
    CASE step = "get_element" -> 1
      [] step = "find_element" -> 2
      [] step \in {"save_element", "locate_image"} -> 3
      [] step \in {"click_image", "locate"} -> 4
      [] step = "click_image_returned" -> 5
      [] step = "os_remove" -> 6
      [] step = "perform_test" -> 7

RemoveMissed(i) == inv[i].raised = "FileNotFoundError" /\ LastStep(i) = "os_remove"
ReadForeign(i) == inv[i].template.exists /\ inv[i].template.owner # i

\* C10: every click_this_element invocation captures to <cwd>/element_1.png.
\* Serialized invocations each hand click_image the file they captured and their
\* os.remove finds it; an invocation whose os.remove finds the file gone (which
\* takes an interleaved invocation) returns False.
C10_ArtifactIsolation ==
    \A i \in Inv :
        /\ inv[i].file_path.dir = "cwd" => inv[i].file_path = NamedPath("element_1")
        /\ serialized => /\ ~ReadForeign(i)
                          /\ inv[i].raised # "FileNotFoundError"
        /\ RemoveMissed(i) => Done(i) /\ inv[i].result = FALSE

\* C10 witness: two interleaved invocations captured to the same path; one was
\* given the other's capture, clicked, found the file already removed and
\* returned False.
C10_Witness ==
    /\ ~serialized
    /\ \E i \in Inv, j \in Inv :
          /\ i # j
          /\ inv[i].file_path = inv[j].file_path
          /\ ReadForeign(i) /\ inv[i].template.owner = j
          /\ inv[i].success /\ RemoveMissed(i)
          /\ inv[i].result = FALSE

====
